---- MODULE Spec2Model ----
(***************************************************************************)
(* A model of mathfp: the scanner (token.rs), the parser (parser.rs), the  *)
(* evaluator (eval.rs), the Environment (runtime.rs) and the REPL driver   *)
(* (main.rs).                                                              *)
(*                                                                         *)
(* Text is a sequence of one-character strings, so "nil" is                *)
(* <<"n","i","l">>.  An f64 is a pair <<n, d>>: the rational n/d in lowest *)
(* terms with d > 0, or <<1,0>> (+inf), <<-1,0>> (-inf), <<0,0>> (NaN).    *)
(* A panic (todo!(), unreachable!(), a slice out of range) is the result   *)
(* tag "Panic": it ends the process.                                       *)
(***************************************************************************)
EXTENDS Integers, Sequences, FiniteSets, TLC

VARIABLES
    env,        \* Environment.bindings: name -> [value, is_constant]
    last,       \* the last call made on the environment and what it returned
    written,    \* name -> the value of the most recent Environment::bind call
    pure,       \* TRUE while only Environment::bind has been called
    calls,      \* the number of calls made so far
    scanner,    \* Scanner: source, start, current, line, column
    tokens,     \* scan(): the local tokens
    errors,     \* scan(): the local errors
    scanPc,     \* scan(): "new", "loop", "returned" or "panicked"
    scanOut,    \* what scan() returned
    replPc,     \* run_repl(): "loop", "returned_ok", "returned_err", "panicked"
    replLast,   \* run_repl(): the last read and what run() made of it
    replLines,  \* run_repl(): the number of lines read so far
    parser,     \* Parser: tokens, current
    parseStmts, \* program(): the local statements
    parseErrors,\* program(): the local errors
    parsePc,    \* program(): "new", "loop", "returned" or "panicked"
    parseOut,   \* what parse() returned
    parseIters, \* program(): the number of iterations of the loop so far
    parsePrev   \* program(): Parser.current before the last iteration

envVars == <<env, last, written, pure, calls>>

scanVars == <<scanner, tokens, errors, scanPc, scanOut>>

replVars == <<replPc, replLast, replLines>>

parseVars ==
    <<parser, parseStmts, parseErrors, parsePc, parseOut, parseIters, parsePrev>>

vars ==
    <<env, last, written, pure, calls, scanner, tokens, errors, scanPc, scanOut,
      replPc, replLast, replLines, parser, parseStmts, parseErrors, parsePc,
      parseOut, parseIters, parsePrev>>

(***************************************************************************)
(* f64 arithmetic                                                          *)
(***************************************************************************)
Abs(i) == IF i < 0 THEN -i ELSE i

Sign(i) == IF i < 0 THEN -1 ELSE IF i = 0 THEN 0 ELSE 1

RECURSIVE GCD(_, _)
GCD(a, b) == IF b = 0 THEN a ELSE GCD(b, a % b)

NaN == <<0, 0>>

Inf(s) == <<s, 0>>

IsNaN(a) == a = NaN

IsInf(a) == a[2] = 0 /\ a[1] # 0

Num(i) == <<i, 1>>

\* n/d in lowest terms; d may be negative or zero (n/0 is +-inf, 0/0 is NaN)
FNorm(n, d) ==
    IF d = 0 THEN <<Sign(n), 0>>
    ELSE LET g == GCD(Abs(n), Abs(d))
             s == Sign(d)
         IN  <<(s * n) \div g, Abs(d) \div g>>

FNeg(a) == <<-a[1], a[2]>>

FAdd(a, b) ==
    IF IsNaN(a) \/ IsNaN(b) THEN NaN
    ELSE IF IsInf(a) /\ IsInf(b) THEN (IF a = b THEN a ELSE NaN)
    ELSE IF IsInf(a) THEN a
    ELSE IF IsInf(b) THEN b
    ELSE FNorm(a[1] * b[2] + b[1] * a[2], a[2] * b[2])

FSub(a, b) == FAdd(a, FNeg(b))

FMul(a, b) ==
    IF IsNaN(a) \/ IsNaN(b) THEN NaN
    ELSE IF IsInf(a) \/ IsInf(b)
         THEN Inf(Sign(a[1]) * Sign(b[1]))      \* inf * 0 is <<0,0>>, NaN
    ELSE FNorm(a[1] * b[1], a[2] * b[2])

FDiv(a, b) ==
    IF IsNaN(a) \/ IsNaN(b) THEN NaN
    ELSE IF IsInf(a) /\ IsInf(b) THEN NaN
    ELSE IF IsInf(a) THEN Inf(a[1] * (IF b[1] < 0 THEN -1 ELSE 1))
    ELSE IF IsInf(b) THEN Num(0)
    ELSE FNorm(a[1] * b[2], a[2] * b[1])        \* x/0 is +-inf, 0/0 is NaN

(***************************************************************************)
(* runtime.rs: RuntimeValue and Environment                                *)
(***************************************************************************)
Number(n) == [t |-> "Number", n |-> n]

String(s) == [t |-> "String", s |-> s]

Boolean(b) == [t |-> "Boolean", b |-> b]

Function == [t |-> "Function"]

Nil == [t |-> "Nil"]

NameNil == <<"n", "i", "l">>

NameTrue == <<"t", "r", "u", "e">>

NameFalse == <<"f", "a", "l", "s", "e">>

\* Option<&RuntimeValue>
None == [t |-> "None"]

Binding(value, is_constant) == [value |-> value, is_constant |-> is_constant]

bind_const(e, name, value) ==
    [n \in DOMAIN e \cup {name} |->
        IF n = name THEN Binding(value, TRUE) ELSE e[n]]

EmptyMap == [n \in {} |-> Binding(Nil, FALSE)]

new ==
    bind_const(bind_const(bind_const(EmptyMap, NameNil, Nil),
                          NameTrue, Boolean(TRUE)),
               NameFalse, Boolean(FALSE))

NoErr == [kind |-> "none", name |-> <<>>]

Error(kind, name) == [kind |-> kind, name |-> name]

\* Result<(), String> together with the environment the call leaves
BindResult(tag, err, e) == [tag |-> tag, err |-> err, env |-> e]

\* faulty variant: the first write wins (entry().or_insert())
bind_insert_KeepFirst(e, name, value) ==
    [n \in DOMAIN e \cup {name} |->
        IF n \in DOMAIN e THEN e[n] ELSE Binding(value, FALSE)]

bind_insert(e, name, value) ==
    [n \in DOMAIN e \cup {name} |->
        IF n = name THEN Binding(value, FALSE) ELSE e[n]]

\* faulty variant: no is_constant check
bind_Unchecked(e, name, value) ==
    BindResult("Ok", NoErr, bind_insert(e, name, value))

bind(e, name, value) ==
    IF name \in DOMAIN e /\ e[name].is_constant
    THEN BindResult("Err", Error("CannotModify", name), e)
    ELSE BindResult("Ok", NoErr, bind_insert(e, name, value))

resolve(e, name) == IF name \in DOMAIN e THEN e[name].value ELSE None

(***************************************************************************)
(* token.rs: Token, TokenType.  ast.rs: Expr, LiteralValue                 *)
(***************************************************************************)
Kind(k) == [k |-> k]

Token(kind, lexeme, line, column) ==
    [kind |-> kind, lexeme |-> lexeme, line |-> line, column |-> column]

Program(statements) == [k |-> "Program", statements |-> statements]

Binary(left, op, right) ==
    [k |-> "Binary", left |-> left, op |-> op, right |-> right]

Unary(op, right) == [k |-> "Unary", op |-> op, right |-> right]

Grouping(expr) == [k |-> "Grouping", expr |-> expr]

Variable(name) == [k |-> "Variable", name |-> name]

ExprBinding(name, expr) == [k |-> "Binding", name |-> name, expr |-> expr]

Literal(literal) == [k |-> "Literal", literal |-> literal]

FunctionDef(param, body) == [k |-> "FunctionDef", param |-> param, body |-> body]

FunctionCall(func, arg) == [k |-> "FunctionCall", func |-> func, arg |-> arg]

If(c, t, e) == [k |-> "If", cond_expr |-> c, then_expr |-> t, else_expr |-> e]

Empty == [k |-> "Empty"]

(***************************************************************************)
(* token.rs: Scanner.  A character is a one-character string; the two      *)
(* non-ASCII characters of the model are named by their code points.       *)
(* self.current counts characters (chars().nth) and is also used as a byte *)
(* offset (&self.source[a..b]).                                            *)
(***************************************************************************)
EAcute == "U+00E9"          \* alphabetic, two bytes in UTF-8

SuperTwo == "U+00B2"        \* numeric but no ASCII digit, two bytes in UTF-8

AsciiDigits == {"0", "1", "2", "3", "4", "5", "6", "7", "8", "9"}

AsciiLetters ==
    {"a", "b", "c", "d", "e", "f", "g", "h", "i", "j", "k", "l", "m", "n",
     "o", "p", "q", "r", "s", "t", "u", "v", "w", "x", "y", "z"}

is_ascii_digit(ch) == ch \in AsciiDigits

is_numeric(ch) == ch \in AsciiDigits \cup {SuperTwo}

is_alphabetic(ch) == ch \in AsciiLetters \cup {EAcute}

is_alphanumeric(ch) == is_alphabetic(ch) \/ is_numeric(ch)

len_utf8(ch) == IF ch \in {EAcute, SuperTwo} THEN 2 ELSE 1

\* the byte offset of the i-th character boundary (0 .. Len(source))
RECURSIVE ByteOffset(_, _)
ByteOffset(source, i) ==
    IF i = 0 THEN 0 ELSE ByteOffset(source, i - 1) + len_utf8(source[i])

ByteLen(source) == ByteOffset(source, Len(source))

IsCharBoundary(source, b) ==
    \E i \in 0..Len(source) : ByteOffset(source, i) = b

CharIndex(source, b) ==
    CHOOSE i \in 0..Len(source) : ByteOffset(source, i) = b

\* &source[a..b] panics unless a <= b <= len and both are char boundaries
SliceOk(source, a, b) ==
    a <= b /\ IsCharBoundary(source, a) /\ IsCharBoundary(source, b)

Slice(source, a, b) ==
    SubSeq(source, CharIndex(source, a) + 1, CharIndex(source, b))

Scanner(source) ==
    [source |-> source, start |-> 0, current |-> 0, line |-> 1, column |-> 0]

make_token(sc, kind, lexeme) == Token(kind, lexeme, sc.line, sc.column)

NoToken == Token(Kind("None"), <<>>, 0, 0)

NoMessage == [kind |-> "none", line |-> 0, column |-> 0, text |-> <<>>]

\* format!("[Line {}, Col {}] ...", self.line, self.column, ..)
Message(sc, kind, text) ==
    [kind |-> kind, line |-> sc.line, column |-> sc.column, text |-> text]

TokOk(token, sc) == [tag |-> "Ok", token |-> token, err |-> NoMessage, sc |-> sc]

TokErr(err, sc) == [tag |-> "Err", token |-> NoToken, err |-> err, sc |-> sc]

TokPanic(sc) == [tag |-> "Panic", token |-> NoToken, err |-> NoMessage, sc |-> sc]

\* self.source.chars().nth(self.current)
HasCurrent(sc) == sc.current < Len(sc.source)

current_char(sc) == sc.source[sc.current + 1]

advance(sc) == [sc EXCEPT !.current = @ + 1]

advance_by(sc, amount) == [sc EXCEPT !.current = @ + amount]

SingleChar ==
    [ch \in {"+", "-", "*", "/", "<", ">", "(", ")"} |->
        CASE ch = "+" -> "Plus"
          [] ch = "-" -> "Minus"
          [] ch = "*" -> "Star"
          [] ch = "/" -> "Slash"
          [] ch = "<" -> "LessThan"
          [] ch = ">" -> "GreaterThan"
          [] ch = "(" -> "LeftParen"
          [] ch = ")" -> "RightParen"]

DigitValue(ch) ==
    CASE ch = "0" -> 0 [] ch = "1" -> 1 [] ch = "2" -> 2 [] ch = "3" -> 3
      [] ch = "4" -> 4 [] ch = "5" -> 5 [] ch = "6" -> 6 [] ch = "7" -> 7
      [] ch = "8" -> 8 [] ch = "9" -> 9

Count(lexeme, ch) == Cardinality({i \in 1..Len(lexeme) : lexeme[i] = ch})

\* lexeme.parse::<f64>() succeeds on ASCII digits with at most one '.'
\* and at least one digit
ParsesAsF64(lexeme) ==
    /\ \A i \in 1..Len(lexeme) : lexeme[i] \in AsciiDigits \cup {"."}
    /\ Count(lexeme, ".") <= 1
    /\ \E i \in 1..Len(lexeme) : lexeme[i] \in AsciiDigits

RECURSIVE Pow10(_)
Pow10(n) == IF n = 0 THEN 1 ELSE 10 * Pow10(n - 1)

\* the digits of the lexeme read as a decimal integer, the '.' skipped
RECURSIVE DigitsValue(_, _)
DigitsValue(lexeme, i) ==
    IF i = 0 THEN 0
    ELSE IF lexeme[i] = "." THEN DigitsValue(lexeme, i - 1)
    ELSE 10 * DigitsValue(lexeme, i - 1) + DigitValue(lexeme[i])

ParseF64(lexeme) ==
    LET dot == IF Count(lexeme, ".") = 0 THEN Len(lexeme)
               ELSE CHOOSE i \in 1..Len(lexeme) : lexeme[i] = "."
    IN  FNorm(DigitsValue(lexeme, Len(lexeme)), Pow10(Len(lexeme) - dot))

RECURSIVE NumberRun(_)
NumberRun(sc) ==
    IF HasCurrent(sc) /\ (is_numeric(current_char(sc)) \/ current_char(sc) = ".")
    THEN NumberRun(advance(sc))
    ELSE sc

number(sc0) ==
    LET sc == NumberRun(sc0)
    IN  IF ~SliceOk(sc.source, sc.start, sc.current) THEN TokPanic(sc)
        ELSE LET lexeme == Slice(sc.source, sc.start, sc.current)
             IN  IF ParsesAsF64(lexeme)
                 THEN TokOk(make_token(sc, [k |-> "Number", n |-> ParseF64(lexeme)],
                                       lexeme), sc)
                 ELSE TokErr(Message(sc, "FailedToParseNumber", lexeme), sc)

RECURSIVE IdentifierRun(_)
IdentifierRun(sc) ==
    IF HasCurrent(sc) /\ (is_alphanumeric(current_char(sc)) \/ current_char(sc) = "_")
    THEN IdentifierRun(advance(sc))
    ELSE sc

Keywords ==
    [lexeme \in {<<"i", "f">>, <<"t", "h", "e", "n">>, <<"e", "l", "s", "e">>} |->
        CASE lexeme = <<"i", "f">> -> "If"
          [] lexeme = <<"t", "h", "e", "n">> -> "Then"
          [] lexeme = <<"e", "l", "s", "e">> -> "Else"]

identifier(sc0) ==
    LET sc == IdentifierRun(sc0)
    IN  IF ~SliceOk(sc.source, sc.start, sc.current) THEN TokPanic(sc)
        ELSE LET lexeme == Slice(sc.source, sc.start, sc.current)
             IN  IF lexeme \in DOMAIN Keywords
                 THEN TokOk(make_token(sc, Kind(Keywords[lexeme]), lexeme), sc)
                 ELSE TokOk(make_token(sc, [k |-> "Identifier", name |-> lexeme],
                                       lexeme), sc)

maps_to(sc) ==
    IF ~SliceOk(sc.source, sc.start, sc.current + 3) THEN TokPanic(sc)
    ELSE IF Slice(sc.source, sc.start, sc.current + 3) = <<"|", "-", ">">>
    THEN TokOk(make_token(advance_by(sc, 3), Kind("MapsTo"), <<"|", "-", ">">>),
               advance_by(sc, 3))
    ELSE TokErr(Message(advance(sc), "ExpectedMapsTo", <<>>), advance(sc))

binding(sc) ==
    IF ~SliceOk(sc.source, sc.start, sc.current + 2) THEN TokPanic(sc)
    ELSE IF Slice(sc.source, sc.start, sc.current + 2) = <<":", "=">>
    THEN TokOk(make_token(advance_by(sc, 2), Kind("Binding"), <<":", "=">>),
               advance_by(sc, 2))
    ELSE TokErr(Message(advance(sc), "ExpectedBinding", <<>>), advance(sc))

\* the loop of string(): [is_terminated, scanner]
RECURSIVE StringRun(_)
StringRun(sc) ==
    IF ~HasCurrent(sc) THEN <<FALSE, sc>>
    ELSE IF current_char(sc) = "\"" THEN <<TRUE, advance(sc)>>
    ELSE StringRun(advance(sc))

string(sc0) ==
    LET run == StringRun(advance(sc0))
        sc == run[2]
    IN  IF ~run[1] THEN TokErr(Message(sc, "UnterminatedString", <<>>), sc)
        ELSE IF ~SliceOk(sc.source, sc.start + 1, sc.current - 1) THEN TokPanic(sc)
        ELSE LET lexeme == Slice(sc.source, sc.start + 1, sc.current - 1)
             IN  TokOk(make_token(sc, [k |-> "String", s |-> lexeme], lexeme), sc)

RECURSIVE scan_token(_)
scan_token(sc0) ==
    LET st == [sc0 EXCEPT !.start = sc0.current]
    IN  IF ~HasCurrent(st) THEN TokOk(make_token(st, Kind("Eof"), <<>>), st)
        ELSE LET ch == current_char(st)
                 sc == [st EXCEPT !.column = @ + 1]
             IN  CASE ch \in DOMAIN SingleChar ->
                        TokOk(make_token(advance(sc), Kind(SingleChar[ch]), <<ch>>),
                              advance(sc))
                   [] ch = "|" -> maps_to(sc)
                   [] ch = ":" -> binding(sc)
                   [] ch = "\"" -> string(sc)
                   [] ch = "\n" ->
                        LET nl == [advance(sc) EXCEPT !.line = @ + 1, !.column = 1]
                        IN  TokOk(make_token(nl, Kind("EndStmt"), <<"\n">>), nl)
                   [] ch = ";" ->
                        TokOk(make_token(advance(sc), Kind("EndStmt"), <<";">>),
                              advance(sc))
                   [] ch \in {" ", "\r", "\t"} -> scan_token(advance(sc))
                   [] is_ascii_digit(ch) \/ ch = "." -> number(sc)
                   [] is_alphabetic(ch) -> identifier(sc)
                   [] OTHER ->
                        TokErr(Message(advance(sc), "UnexpectedCharacter", <<ch>>),
                               advance(sc))

\* Result<Vec<Token>, Vec<String>>
ScanResult(tag, toks, errs) == [tag |-> tag, tokens |-> toks, errors |-> errs]

\* if errors.is_empty() { Ok(tokens) } else { Err(errors) }
ScanReturn(toks, errs) ==
    IF errs = <<>> THEN ScanResult("Ok", toks, <<>>)
    ELSE ScanResult("Err", <<>>, errs)

\* faulty variant: if is_eof { break; } before tokens.push(token)
LoopBody_BreakBeforePush(sc, toks, errs) ==
    LET r == scan_token(sc)
    IN  CASE r.tag = "Panic" ->
                [pc |-> "panicked", sc |-> r.sc, tokens |-> toks, errors |-> errs]
          [] r.tag = "Err" ->
                [pc |-> "loop", sc |-> r.sc, tokens |-> toks,
                 errors |-> Append(errs, r.err)]
          [] r.tag = "Ok" ->
                IF r.token.kind.k = "Eof"
                THEN [pc |-> "returned", sc |-> r.sc, tokens |-> toks, errors |-> errs]
                ELSE [pc |-> "loop", sc |-> r.sc, tokens |-> Append(toks, r.token),
                      errors |-> errs]

\* one iteration of the loop of scan(): pc is "returned" after the break
LoopBody(sc, toks, errs) ==
    LET r == scan_token(sc)
    IN  CASE r.tag = "Panic" ->
                [pc |-> "panicked", sc |-> r.sc, tokens |-> toks, errors |-> errs]
          [] r.tag = "Err" ->
                [pc |-> "loop", sc |-> r.sc, tokens |-> toks,
                 errors |-> Append(errs, r.err)]
          [] r.tag = "Ok" ->
                [pc |-> IF r.token.kind.k = "Eof" THEN "returned" ELSE "loop",
                 sc |-> r.sc, tokens |-> Append(toks, r.token), errors |-> errs]

RECURSIVE ScanLoop(_, _, _)
ScanLoop(sc, toks, errs) ==
    LET it == LoopBody(sc, toks, errs)
    IN  CASE it.pc = "panicked" -> ScanResult("Panic", <<>>, <<>>)
          [] it.pc = "returned" -> ScanReturn(it.tokens, it.errors)
          [] it.pc = "loop" -> ScanLoop(it.sc, it.tokens, it.errors)

scan(source) == ScanLoop(Scanner(source), <<>>, <<>>)

(***************************************************************************)
(* parser.rs: Parser.  A parser state is [tokens, current]; a result       *)
(* carries the state the call leaves.                                      *)
(***************************************************************************)
Parser(toks) == [tokens |-> toks, current |-> 0]

HasToken(ps) == ps.current < Len(ps.tokens)

current_token(ps) == ps.tokens[ps.current + 1]

\* Option<TokenType>
NoKind == Kind("None")

current_kind(ps) == IF HasToken(ps) THEN current_token(ps).kind ELSE NoKind

lookahead_kind(ps) ==
    IF ps.current + 1 < Len(ps.tokens) THEN ps.tokens[ps.current + 2].kind
    ELSE NoKind

Parser_advance(ps) == [ps EXCEPT !.current = @ + 1]

ParseOk(expr, ps) == [tag |-> "Ok", expr |-> expr, err |-> NoMessage, ps |-> ps]

ParseErr(err, ps) == [tag |-> "Err", expr |-> Empty, err |-> err, ps |-> ps]

ParsePanic(ps) == [tag |-> "Panic", expr |-> Empty, err |-> NoMessage, ps |-> ps]

\* "[Line {}, Col {}] {message}" at the current token, or at 1:1 past the end;
\* text is the kind the message names ({:?}), if any
make_error(ps, message, found) ==
    ParseErr([kind |-> message,
              line |-> IF HasToken(ps) THEN current_token(ps).line ELSE 1,
              column |-> IF HasToken(ps) THEN current_token(ps).column ELSE 1,
              text |-> found], ps)

is_at_end(ps) == ~HasToken(ps) \/ current_kind(ps).k = "Eof"

\* faulty variant: no token is skipped after an error
synchronise_Stay(ps) == ps

RECURSIVE synchronise(_)
synchronise(ps) ==
    IF HasToken(ps) /\ current_kind(ps).k \notin {"EndStmt", "Eof"}
    THEN synchronise(Parser_advance(ps))
    ELSE ps

empty_expr(ps) == ParseOk(Empty, Parser_advance(ps))

RECURSIVE expression(_)
RECURSIVE Parser_binding(_)
RECURSIVE binary_expr(_)
RECURSIVE BinaryExprLoop(_, _)
RECURSIVE BinaryExprRight(_, _, _)
RECURSIVE term(_)
RECURSIVE TermLoop(_, _)
RECURSIVE TermRight(_, _, _)
RECURSIVE factor(_)
RECURSIVE primary(_)
RECURSIVE grouping(_)

expression(ps) ==
    LET kind == current_kind(ps)
    IN  CASE kind.k = "EndStmt" -> empty_expr(ps)
          [] kind.k = "Eof" -> ParsePanic(ps)
          [] kind.k = "None" -> make_error(ps, "ExpectedExpression", NoKind)
          [] OTHER -> IF lookahead_kind(ps).k = "Binding" THEN Parser_binding(ps)
                      ELSE binary_expr(ps)

\* let value = self.expression()?; Ok(Expr::Binding { name, value })
BindingValue(name, r) ==
    IF r.tag # "Ok" THEN r ELSE ParseOk(ExprBinding(name, r.expr), r.ps)

\* binding() from the result p of self.primary()
BindingName(p) ==
    IF p.tag # "Ok" THEN p
    ELSE IF p.expr.k # "Variable"
    THEN make_error(p.ps, "ExpectedIdentifierToBind", NoKind)
    ELSE LET kind == current_kind(p.ps)
         IN  CASE kind.k = "Binding" ->
                    BindingValue(p.expr.name, expression(Parser_advance(p.ps)))
               [] kind.k = "None" ->
                    make_error(p.ps, "ExpectedExpression", NoKind)
               [] OTHER -> make_error(p.ps, "ExpectedBindingExpression", kind)

Parser_binding(ps0) == BindingName(primary(ps0))

\* while matches!(current_kind(), Some(Plus | Minus)) { .. }
\* faulty variant: let right = self.factor()?, so '*' no longer binds tighter
BinaryExprLoop_Factor(left, ps) ==
    IF current_kind(ps).k \in {"Plus", "Minus"}
    THEN BinaryExprRight(left, current_token(ps), factor(Parser_advance(ps)))
    ELSE ParseOk(left, ps)

BinaryExprLoop(left, ps) ==
    IF current_kind(ps).k \in {"Plus", "Minus"}
    THEN BinaryExprRight(left, current_token(ps), term(Parser_advance(ps)))
    ELSE ParseOk(left, ps)

\* let right = self.term()?; left = Expr::Binary { left, op, right }
BinaryExprRight(left, op, r) ==
    IF r.tag # "Ok" THEN r ELSE BinaryExprLoop(Binary(left, op, r.expr), r.ps)

\* let mut left = self.term()?
BinaryExprLeft(l) == IF l.tag # "Ok" THEN l ELSE BinaryExprLoop(l.expr, l.ps)

binary_expr(ps) == BinaryExprLeft(term(ps))

\* while matches!(current_kind(), Some(Star | Slash)) { .. }
TermLoop(left, ps) ==
    IF current_kind(ps).k \in {"Star", "Slash"}
    THEN TermRight(left, current_token(ps), factor(Parser_advance(ps)))
    ELSE ParseOk(left, ps)

\* let right = self.factor()?; left = Expr::Binary { left, op, right }
TermRight(left, op, r) ==
    IF r.tag # "Ok" THEN r ELSE TermLoop(Binary(left, op, r.expr), r.ps)

\* let mut left = self.factor()?
TermLeft(l) == IF l.tag # "Ok" THEN l ELSE TermLoop(l.expr, l.ps)

term(ps) == TermLeft(factor(ps))

factor(ps) == primary(ps)

primary(ps) ==
    LET kind == current_kind(ps)
    IN  CASE kind.k = "Number" ->
                ParseOk(Literal(Number(kind.n)), Parser_advance(ps))
          [] kind.k = "Identifier" ->
                ParseOk(Variable(kind.name), Parser_advance(ps))
          [] kind.k = "String" ->
                ParseOk(Literal(String(kind.s)), Parser_advance(ps))
          [] kind.k = "LeftParen" -> grouping(ps)
          [] kind.k = "None" -> make_error(ps, "ExpectedExpression", NoKind)
          [] OTHER -> make_error(ps, "ExpectedPrimary", kind)

\* grouping() from the result r of self.expression()
GroupingClose(r) ==
    IF r.tag # "Ok" THEN r
    ELSE LET kind == current_kind(r.ps)
         IN  CASE kind.k = "RightParen" ->
                    ParseOk(Grouping(r.expr), Parser_advance(r.ps))
               [] kind.k = "None" -> ParsePanic(r.ps)
               [] OTHER -> make_error(r.ps, "ExpectedRightParen", kind)

grouping(ps0) == GroupingClose(expression(Parser_advance(ps0)))

\* statement() from the result r of self.expression()
StatementEnd(r) ==
    IF r.tag # "Ok" THEN r
    ELSE IF r.expr = Empty THEN r
    ELSE LET kind == current_kind(r.ps)
         IN  CASE kind.k \in {"EndStmt", "Eof"} -> r
               [] kind.k = "None" ->
                    ParseErr([kind |-> "ExpectedEndStmt", line |-> 0,
                              column |-> 0, text |-> NoKind], r.ps)
               [] OTHER -> make_error(r.ps, "ExpectedEndStmt", kind)

statement(ps) == StatementEnd(expression(ps))

\* Result<Expr, Vec<String>>
ParseResult(tag, expr, errs) == [tag |-> tag, expr |-> expr, errors |-> errs]

\* if errors.is_empty() { Ok(Expr::Program { statements }) } else { Err(errors) }
ProgramReturn(statements, errs) ==
    IF errs = <<>> THEN ParseResult("Ok", Program(statements), <<>>)
    ELSE ParseResult("Err", Empty, errs)

\* one iteration of the loop of program(), entered with !is_at_end()
\* faulty variant: Ok(Expr::Empty) is pushed like any other statement
ProgramMatch_KeepEmpty(r, statements, errs) ==
    CASE r.tag = "Panic" ->
            [pc |-> "panicked", ps |-> r.ps, statements |-> statements,
             errors |-> errs]
      [] r.tag = "Err" ->
            [pc |-> "loop", ps |-> synchronise(r.ps), statements |-> statements,
             errors |-> Append(errs, r.err)]
      [] r.tag = "Ok" ->
            [pc |-> "loop", ps |-> r.ps, statements |-> Append(statements, r.expr),
             errors |-> errs]

\* match self.statement() { Ok(Expr::Empty) => .., Ok(stmt) => .., Err(e) => .. }
ProgramMatch(r, statements, errs) ==
    CASE r.tag = "Panic" ->
            [pc |-> "panicked", ps |-> r.ps, statements |-> statements,
             errors |-> errs]
      [] r.tag = "Err" ->
            [pc |-> "loop", ps |-> synchronise(r.ps), statements |-> statements,
             errors |-> Append(errs, r.err)]
      [] r.tag = "Ok" ->
            [pc |-> "loop", ps |-> r.ps,
             statements |-> IF r.expr = Empty THEN statements
                            ELSE Append(statements, r.expr),
             errors |-> errs]

ProgramBody(ps, statements, errs) == ProgramMatch(statement(ps), statements, errs)

RECURSIVE ProgramLoop(_, _, _)

\* the loop goes on from what one iteration left, unless it panicked
ProgramIterate(it) ==
    IF it.pc = "panicked" THEN ParseResult("Panic", Empty, <<>>)
    ELSE ProgramLoop(it.ps, it.statements, it.errors)

ProgramLoop(ps, statements, errs) ==
    IF is_at_end(ps) THEN ProgramReturn(statements, errs)
    ELSE ProgramIterate(ProgramBody(ps, statements, errs))

program(ps) == ProgramLoop(ps, <<>>, <<>>)

parse(toks) == program(Parser(toks))

(***************************************************************************)
(* eval.rs: evaluate.  The result carries the environment as the call      *)
(* leaves it (env is a &mut borrow).                                       *)
(***************************************************************************)
Ok(value, e) == [tag |-> "Ok", value |-> value, err |-> NoErr, env |-> e]

Err(err, e) == [tag |-> "Err", value |-> Nil, err |-> err, env |-> e]

Panic(e) == [tag |-> "Panic", value |-> Nil, err |-> NoErr, env |-> e]

TypeError == Error("OperandsMustBeNumbers", <<>>)

\* (cond as i64) as f64
BoolAsF64(cond) == IF cond THEN Num(1) ELSE Num(0)

\* faulty variant: no Boolean arm
IsOperand_NumbersOnly(v) == v.t = "Number"

IsOperand(v) == v.t \in {"Number", "Boolean"}

OperandValue(v) == IF v.t = "Number" THEN v.n ELSE BoolAsF64(v.b)

ArithKinds == {"Plus", "Minus", "Star", "Slash"}

Arith(kind, l, r) ==
    CASE kind = "Plus" -> FAdd(l, r)
      [] kind = "Minus" -> FSub(l, r)
      [] kind = "Star" -> FMul(l, r)
      [] kind = "Slash" -> FDiv(l, r)

EvalLiteral(literal, e) ==
    IF literal.t \in {"Number", "String"} THEN Ok(literal, e) ELSE Panic(e)

\* faulty variant: unwrap_or(Nil) instead of ok_or(..)
EvalVariable_NilDefault(name, e) ==
    LET v == resolve(e, name)
    IN  IF v = None THEN Ok(Nil, e) ELSE Ok(v, e)

EvalVariable(name, e) ==
    LET v == resolve(e, name)
    IN  IF v = None THEN Err(Error("NotDefined", name), e) ELSE Ok(v, e)

\* faulty variant: let _ = env.bind(name, value);
EvalBind_IgnoreErr(name, value, e) == Ok(Nil, bind(e, name, value).env)

\* faulty variant: the binding evaluates to the bound value
EvalBind_ReturnsValue(name, value, e) ==
    LET b == bind(e, name, value)
    IN  IF b.tag = "Err" THEN Err(b.err, b.env) ELSE Ok(value, b.env)

\* env.bind(name, value)?; Ok(RuntimeValue::Nil)
EvalBind(name, value, e) ==
    LET b == bind(e, name, value)
    IN  IF b.tag = "Err" THEN Err(b.err, b.env) ELSE Ok(Nil, b.env)

BinaryResult(kind, l, r, e) ==
    IF kind \in ArithKinds THEN Ok(Number(Arith(kind, l, r)), e) ELSE Panic(e)

RECURSIVE evaluate(_, _)
RECURSIVE EvalProgram(_, _, _, _)
RECURSIVE EvalBinary(_, _)

RECURSIVE EvalProgram_Continue(_, _, _, _)
RECURSIVE EvalProgram_FirstValue(_, _, _, _)

\* faulty variant: if let Ok(v) = evaluate(stmt, env) { result = v }
EvalProgram_Continue(statements, i, result, e) ==
    IF i > Len(statements) THEN Ok(result, e)
    ELSE LET r == evaluate(statements[i], e)
         IN  IF r.tag = "Panic" THEN r
             ELSE EvalProgram_Continue(statements, i + 1,
                    IF r.tag = "Ok" THEN r.value ELSE result, r.env)

\* faulty variant: the result is the value of the first statement
EvalProgram_FirstValue(statements, i, result, e) ==
    IF i > Len(statements) THEN Ok(result, e)
    ELSE LET r == evaluate(statements[i], e)
         IN  IF r.tag # "Ok" THEN r
             ELSE EvalProgram_FirstValue(statements, i + 1,
                    IF i = 1 THEN r.value ELSE result, r.env)

\* for stmt in statements { result = evaluate(stmt, env)?; }  Ok(result)
EvalProgram(statements, i, result, e) ==
    IF i > Len(statements) THEN Ok(result, e)
    ELSE LET r == evaluate(statements[i], e)
         IN  IF r.tag # "Ok" THEN r
             ELSE EvalProgram(statements, i + 1, r.value, r.env)

EvalBinary(expr, e) ==
    LET lr == evaluate(expr.left, e)
    IN  IF lr.tag # "Ok" THEN lr
        ELSE IF ~IsOperand(lr.value) THEN Err(TypeError, lr.env)
        ELSE LET rr == evaluate(expr.right, lr.env)
             IN  IF rr.tag # "Ok" THEN rr
                 ELSE IF ~IsOperand(rr.value) THEN Err(TypeError, rr.env)
                 ELSE BinaryResult(expr.op.kind.k, OperandValue(lr.value),
                                   OperandValue(rr.value), rr.env)

evaluate(expr, e) ==
    CASE expr.k = "Program" -> EvalProgram(expr.statements, 1, Nil, e)
      [] expr.k = "Literal" -> EvalLiteral(expr.literal, e)
      [] expr.k = "Binary" -> EvalBinary(expr, e)
      [] expr.k = "Grouping" -> evaluate(expr.expr, e)
      [] expr.k = "Binding" ->
            LET r == evaluate(expr.expr, e)
            IN  IF r.tag # "Ok" THEN r ELSE EvalBind(expr.name, r.value, r.env)
      [] expr.k = "Variable" -> EvalVariable(expr.name, e)
      [] OTHER -> Panic(e)

(***************************************************************************)
(* Spec: Environment::new(), then calls of Environment::bind and evaluate  *)
(***************************************************************************)
MaxCalls == 2

MaxStmts == 2

NameX == <<"x">>

NameY == <<"y">>

Builtins == {NameNil, NameTrue, NameFalse}

BindNames == {NameX, NameY} \cup Builtins

BindValues ==
    {Number(Num(1)), Number(Num(2)), String(<<"s">>), Nil, Function}

Op(k, lexeme) == Token(Kind(k), lexeme, 1, 1)

Plus == Op("Plus", <<"+">>)

ArithOps ==
    {Plus, Op("Minus", <<"-">>), Op("Star", <<"*">>), Op("Slash", <<"/">>)}

OtherOps == {Op("LessThan", <<"<">>)}

L0 == Literal(Number(Num(0)))

L1 == Literal(Number(Num(1)))

L2 == Literal(Number(Num(2)))

LS == Literal(String(<<"s">>))

Vx == Variable(NameX)

Vy == Variable(NameY)

Atoms ==
    {L0, L1, L2, LS, Literal(Boolean(TRUE)), Literal(Nil), Vx, Vy,
     Variable(NameTrue), Variable(NameFalse), Variable(NameNil)}

Unimplemented ==
    {Empty, Unary(Op("Minus", <<"-">>), L1), FunctionDef(NameX, Vx),
     FunctionCall(Vx, L1), If(Vx, L1, L2)}

\* x := 1; x   (an operand that binds and yields a number)
BindThenRead == Program(<<ExprBinding(NameX, L1), Vx>>)

Operands == {L1, LS, Vx, Variable(NameNil), BindThenRead, Empty}

Binaries ==
    {Binary(l, op, r) : l \in {L0, L2, Variable(NameTrue)},
                        op \in ArithOps \cup OtherOps,
                        r \in {L0, L1, Variable(NameTrue)}}
    \cup {Binary(l, Plus, r) : l \in Operands, r \in Operands}
    \cup {Binary(Binary(Vx, op, L1), Op("Star", <<"*">>), Vy) :
            op \in {Plus, Op("Slash", <<"/">>)}}

BindingExprs ==
    {ExprBinding(n, a) : n \in BindNames,
                         a \in {L1, LS, Vy, Empty, Binary(Vx, Plus, L1),
                                ExprBinding(NameY, L1)}}

Statements ==
    {ExprBinding(NameX, L1), ExprBinding(NameY, Vx), ExprBinding(NameTrue, L2),
     Vy, Binary(Vx, Plus, L2)}

RECURSIVE SeqsUpTo(_, _)
SeqsUpTo(S, n) ==
    IF n = 0 THEN {<<>>}
    ELSE LET shorter == SeqsUpTo(S, n - 1)
         IN  shorter \cup {Append(q, x) : q \in shorter, x \in S}

Programs == {Program(q) : q \in SeqsUpTo(Statements, MaxStmts)}

Exprs ==
    Atoms \cup Unimplemented \cup Binaries \cup BindingExprs \cup Programs
    \cup {Grouping(L1), Grouping(Vy), Grouping(ExprBinding(NameX, LS))}

NoCall ==
    [op |-> "new", name |-> <<>>, value |-> Nil, expr |-> Empty, pre |-> new,
     tag |-> "Ok", result |-> Nil, err |-> NoErr]

EnvInit ==
    /\ env = new
    /\ last = NoCall
    /\ written = [n \in BindNames |-> None]
    /\ pure = TRUE
    /\ calls = 0

NoScanResult == ScanResult("None", <<>>, <<>>)

\* no scan() call is in progress
ScanIdle ==
    /\ scanner = Scanner(<<>>)
    /\ tokens = <<>>
    /\ errors = <<>>
    /\ scanPc = "new"
    /\ scanOut = NoScanResult

NoRead == [kind |-> "none", line |-> <<>>, outcome |-> "none", pre |-> new]

\* run_repl() has made its Environment and read nothing yet
ReplInit ==
    /\ replPc = "loop"
    /\ replLast = NoRead
    /\ replLines = 0

NoParseResult == ParseResult("None", Empty, <<>>)

\* no parse() call is in progress
ParseIdle ==
    /\ parser = Parser(<<>>)
    /\ parseStmts = <<>>
    /\ parseErrors = <<>>
    /\ parsePc = "new"
    /\ parseOut = NoParseResult
    /\ parseIters = 0
    /\ parsePrev = 0

Init == EnvInit /\ ScanIdle /\ ReplInit /\ ParseIdle

Alive == last.tag # "Panic" /\ calls < MaxCalls

BindCall(name, value) ==
    /\ Alive
    /\ LET b == bind(env, name, value)
       IN  /\ env' = b.env
           /\ last' = [op |-> "bind", name |-> name, value |-> value,
                       expr |-> Empty, pre |-> env, tag |-> b.tag,
                       result |-> Nil, err |-> b.err]
    /\ written' = [written EXCEPT ![name] = value]
    /\ calls' = calls + 1
    /\ UNCHANGED pure
    /\ UNCHANGED <<scanVars, replVars, parseVars>>

EvaluateCall(expr) ==
    /\ Alive
    /\ LET r == evaluate(expr, env)
       IN  /\ env' = r.env
           /\ last' = [op |-> "evaluate", name |-> <<>>, value |-> Nil,
                       expr |-> expr, pre |-> env, tag |-> r.tag,
                       result |-> r.value, err |-> r.err]
    /\ pure' = FALSE
    /\ calls' = calls + 1
    /\ UNCHANGED written
    /\ UNCHANGED <<scanVars, replVars, parseVars>>

Next ==
    \/ Alive /\ \E name \in BindNames, value \in BindValues : BindCall(name, value)
    \/ Alive /\ \E expr \in Exprs : EvaluateCall(expr)

Spec == Init /\ [][Next]_vars

(***************************************************************************)
(* ScanSpec: Scanner::new(source).scan(), one loop iteration per step      *)
(***************************************************************************)
MaxLen == 3

ScanAlphabet ==
    {"+", "-", ">", "|", ":", "=", "\"", "\n", ";", " ", "\t", "\r", "1", ".",
     "a", "_", EAcute, "@"}

Sources == SeqsUpTo(ScanAlphabet, MaxLen)

ScanNew(source) ==
    /\ scanPc = "new"
    /\ scanner' = Scanner(source)
    /\ scanPc' = "loop"
    /\ UNCHANGED <<tokens, errors, scanOut>>
    /\ UNCHANGED <<envVars, replVars, parseVars>>

ScanStep ==
    /\ scanPc = "loop"
    /\ LET it == LoopBody(scanner, tokens, errors)
       IN  /\ scanner' = it.sc
           /\ tokens' = it.tokens
           /\ errors' = it.errors
           /\ scanPc' = it.pc
           /\ scanOut' = IF it.pc = "returned" THEN ScanReturn(it.tokens, it.errors)
                         ELSE scanOut
    /\ UNCHANGED <<envVars, replVars, parseVars>>

ScanNext ==
    \/ scanPc = "new" /\ \E source \in Sources : ScanNew(source)
    \/ ScanStep

ScanSpec == Init /\ [][ScanNext]_vars

(***************************************************************************)
(* main.rs: run and run_repl.  ReplSpec: one read of stdin per step        *)
(***************************************************************************)
RunResult(outcome, e) == [outcome |-> outcome, env |-> e]

\* scan, parse, evaluate, display; the first failing stage returns its report
\* match evaluate(&ast, env) { Ok(v) => println!(..), Err(e) => return Err(..) }
RunEvaluated(r) ==
    CASE r.tag = "Panic" -> RunResult("Panic", r.env)
      [] r.tag = "Err" -> RunResult("RuntimeError", r.env)
      [] r.tag = "Ok" -> RunResult("Displayed", r.env)

\* match parser.parse() { Ok(ast) => .., Err(errors) => return Err(..) }
RunParsed(parsed, e) ==
    IF parsed.tag = "Panic" THEN RunResult("Panic", e)
    ELSE IF parsed.tag = "Err" THEN RunResult("ParserErrors", e)
    ELSE RunEvaluated(evaluate(parsed.expr, e))

\* match scanner.scan() { Ok(tokens) => .., Err(errors) => return Err(..) }
RunScanned(scanned, e) ==
    IF scanned.tag = "Panic" THEN RunResult("Panic", e)
    ELSE IF scanned.tag = "Err" THEN RunResult("ScannerErrors", e)
    ELSE RunParsed(parse(scanned.tokens), e)

run(source, e) == RunScanned(scan(source), e)

MaxPieces == 2

MaxLines == 2

Flatten(pieces) ==
    LET RECURSIVE Go(_)
        Go(i) == IF i = 0 THEN <<>> ELSE Go(i - 1) \o pieces[i]
    IN  Go(Len(pieces))

Pieces ==
    {<<"x", " ", ":", "=", " ">>, <<"y", " ", ":", "=", " ">>,
     <<"t", "r", "u", "e", " ", ":", "=", " ">>,
     <<"x">>, <<"y">>, <<"1">>, <<" ", "+", " ">>, <<"(">>, <<")">>, <<";">>,
     <<"|">>, <<"@">>, <<"\"", "s", "\"">>, <<EAcute>>}

\* what read_line can yield with bytes_read > 0: text without '\n', ended by
\* '\n' or by the end of the input
InputLines ==
    LET texts == {Flatten(q) : q \in SeqsUpTo(Pieces, MaxPieces)}
    IN  {Append(t, "\n") : t \in texts} \cup (texts \ {<<>>})

\* the loop after run(&input, env) came back with r, or did not come back
ReplRan(input, r) ==
    /\ env' = r.env
    /\ replLast' = [kind |-> "line", line |-> input, outcome |-> r.outcome,
                    pre |-> env]
    /\ replPc' = IF r.outcome = "Panic" THEN "panicked" ELSE "loop"

ReplLine(input) ==
    /\ ReplRan(input, run(input, env))
    /\ replLines' = replLines + 1
    /\ UNCHANGED <<last, written, pure, calls, scanVars, parseVars>>

\* read_line returned 0
ReplEof ==
    /\ replPc = "loop"
    /\ replPc' = "returned_ok"
    /\ replLast' = [kind |-> "eof", line |-> <<>>, outcome |-> "none", pre |-> env]
    /\ UNCHANGED <<envVars, scanVars, replLines, parseVars>>

\* flush() or read_line() failed
ReplIoError ==
    /\ replPc = "loop"
    /\ replPc' = "returned_err"
    /\ replLast' = [kind |-> "io_error", line |-> <<>>, outcome |-> "none",
                    pre |-> env]
    /\ UNCHANGED <<envVars, scanVars, replLines, parseVars>>

ReplNext ==
    \/ /\ replPc = "loop"
       /\ replLines < MaxLines
       /\ \E input \in InputLines : ReplLine(input)
    \/ ReplEof
    \/ ReplIoError

ReplSpec == Init /\ [][ReplNext]_vars

(***************************************************************************)
(* parser.rs: ParseSpec: Parser::new(tokens).parse(), one iteration of the *)
(* loop of program() per step                                              *)
(***************************************************************************)
MaxParts == 4

\* runs of [kind, lexeme] the token sequences are put together from:
\* 1  x  (  )  :=  ;  1 +  x -  1 *  x /
TokenPieces ==
    LET one == <<[k |-> "Number", n |-> Num(1)], <<"1">>>>
        x == <<[k |-> "Identifier", name |-> NameX], NameX>>
    IN  {<<one>>, <<x>>, <<<<Kind("LeftParen"), <<"(">>>>>>,
         <<<<Kind("RightParen"), <<")">>>>>>, <<<<Kind("Binding"), <<":", "=">>>>>>,
         <<<<Kind("EndStmt"), <<";">>>>>>,
         <<one, <<Kind("Plus"), <<"+">>>>>>, <<x, <<Kind("Minus"), <<"-">>>>>>,
         <<one, <<Kind("Star"), <<"*">>>>>>, <<x, <<Kind("Slash"), <<"/">>>>>>}

\* the tokens of one line, the i-th at column i, ended by the only Eof
Stamp(q) ==
    [i \in 1..Len(q) + 1 |->
        IF i <= Len(q) THEN Token(q[i][1], q[i][2], 1, i)
        ELSE Token(Kind("Eof"), <<>>, 1, i)]

\* the token sequences put together from at most n of the runs
TokenSeqs(n) == {Stamp(Flatten(q)) : q \in SeqsUpTo(TokenPieces, n)}

ParseNew(toks) ==
    /\ parsePc = "new"
    /\ parser' = Parser(toks)
    /\ parsePc' = "loop"
    /\ UNCHANGED <<parseStmts, parseErrors, parseOut, parseIters, parsePrev>>
    /\ UNCHANGED <<envVars, scanVars, replVars>>

\* while !self.is_at_end() { .. }, then the return
ParseStep ==
    /\ parsePc = "loop"
    /\ IF is_at_end(parser)
       THEN /\ parsePc' = "returned"
            /\ parseOut' = ProgramReturn(parseStmts, parseErrors)
            /\ UNCHANGED <<parser, parseStmts, parseErrors, parseIters, parsePrev>>
       ELSE /\ LET it == ProgramBody(parser, parseStmts, parseErrors)
               IN  /\ parser' = it.ps
                   /\ parseStmts' = it.statements
                   /\ parseErrors' = it.errors
                   /\ parsePc' = it.pc
            /\ parseIters' = parseIters + 1
            /\ parsePrev' = parser.current
            /\ UNCHANGED parseOut
    /\ UNCHANGED <<envVars, scanVars, replVars>>

ParseNext ==
    \/ parsePc = "new" /\ \E toks \in TokenSeqs(MaxParts) : ParseNew(toks)
    \/ ParseStep

ParseSpec == Init /\ [][ParseNext]_vars

(***************************************************************************)
(* Claims about Environment and evaluate, checked under Spec               *)
(***************************************************************************)
IsConstantIn(e, name) == name \in DOMAIN e /\ e[name].is_constant

\* C1: bind on an existing constant name returns an error and leaves the
\* whole environment unchanged; on any other name it returns Ok and then
\* resolve(name) is the given value, stored as non-constant.
C1_BindContract ==
    last.op = "bind" =>
        IF IsConstantIn(last.pre, last.name)
        THEN /\ last.tag = "Err"
             /\ last.err = Error("CannotModify", last.name)
             /\ env = last.pre
        ELSE /\ last.tag = "Ok"
             /\ resolve(env, last.name) = last.value
             /\ ~IsConstantIn(env, last.name)

C1_Witness ==
    /\ last.op = "bind"
    /\ last.name = NameTrue
    /\ last.tag = "Err"
    /\ NameX \in DOMAIN last.pre

ConstantsIntact ==
    /\ resolve(env, NameNil) = Nil
    /\ resolve(env, NameTrue) = Boolean(TRUE)
    /\ resolve(env, NameFalse) = Boolean(FALSE)

BindsBuiltin ==
    /\ last.op = "evaluate"
    /\ last.expr.k = "Binding"
    /\ last.expr.name \in Builtins

\* C2 as stated: nil, true and false keep their values in every reachable
\* state, and every evaluation of a Binding node naming one of them returns
\* an error.
C2_Original ==
    /\ ConstantsIntact
    /\ BindsBuiltin => last.tag = "Err"

\* C2 amended: nil, true and false keep their values in every reachable
\* state, and an evaluation of a Binding node naming one of them never
\* returns Ok: it returns an error, unless the evaluation of its value
\* expression stops in a panic, which then ends the Binding evaluation too.
C2_ConstantsProtected ==
    /\ ConstantsIntact
    /\ BindsBuiltin =>
          /\ last.tag # "Ok"
          /\ last.tag = "Panic" =>
                evaluate(last.expr.expr, last.pre).tag = "Panic"

C2_Witness ==
    /\ BindsBuiltin
    /\ last.expr.name = NameTrue
    /\ last.tag = "Err"
    /\ last.err = Error("CannotModify", NameTrue)
    /\ calls = MaxCalls

\* C3: after bind calls only, every name other than the built-in constants
\* resolves to the value of the most recent bind to it (None if there was
\* none), and no bind to such a name returns an error.
C3_LastWriteWins ==
    pure =>
        /\ \A n \in BindNames \ Builtins : resolve(env, n) = written[n]
        /\ (last.op = "bind" /\ last.name \notin Builtins) => last.tag = "Ok"

C3_Witness ==
    /\ pure
    /\ last.op = "bind"
    /\ last.name = NameX
    /\ NameX \in DOMAIN last.pre
    /\ last.pre[NameX].value # last.value
    /\ resolve(env, NameX) = last.value

\* the environment after statements 1..i, each evaluated on its own
RECURSIVE EnvAfter(_, _, _)
EnvAfter(statements, i, e) ==
    IF i = 0 THEN e
    ELSE evaluate(statements[i], EnvAfter(statements, i - 1, e)).env

\* the i-th statement evaluated on its own after statements 1..i-1
StmtResult(statements, i, e) ==
    evaluate(statements[i], EnvAfter(statements, i - 1, e))

EvaluatedProgram == last.op = "evaluate" /\ last.expr.k = "Program"

\* C5: when the k-th statement of a Program is the first to raise a runtime
\* error, evaluate returns exactly that error, the environment is the one
\* the k-th statement left (no later statement ran) and the names bound by
\* statements 1..k-1 are still bound.
C5_FailFast ==
    EvaluatedProgram =>
        \A k \in 1..Len(last.expr.statements) :
            LET stmts == last.expr.statements
                rk == StmtResult(stmts, k, last.pre)
            IN  (/\ \A j \in 1..(k - 1) : StmtResult(stmts, j, last.pre).tag = "Ok"
                 /\ rk.tag = "Err")
                => /\ last.tag = "Err"
                   /\ last.err = rk.err
                   /\ env = rk.env
                   /\ DOMAIN EnvAfter(stmts, k - 1, last.pre) \subseteq DOMAIN env

C5_Witness ==
    /\ EvaluatedProgram
    /\ last.expr.statements = <<Vy, ExprBinding(NameX, L1)>>
    /\ last.tag = "Err"
    /\ last.err = Error("NotDefined", NameY)
    /\ NameX \notin DOMAIN env

\* C6: a Program evaluates its statements in list order against the same
\* environment, each seeing the bindings of the earlier ones; the result is
\* the value of the last statement, or Nil for an empty statement list.
C6_ProgramSequence ==
    EvaluatedProgram =>
        LET stmts == last.expr.statements
            n == Len(stmts)
        IN  /\ n = 0 => (last.tag = "Ok" /\ last.result = Nil /\ env = last.pre)
            /\ (n > 0 /\ \A j \in 1..n : StmtResult(stmts, j, last.pre).tag = "Ok")
               => /\ last.tag = "Ok"
                  /\ last.result = StmtResult(stmts, n, last.pre).value
                  /\ env = EnvAfter(stmts, n, last.pre)

C6_Witness ==
    /\ EvaluatedProgram
    /\ last.expr.statements = <<ExprBinding(NameX, L1), Binary(Vx, Plus, L2)>>
    /\ NameX \notin DOMAIN last.pre
    /\ last.tag = "Ok"
    /\ last.result = Number(Num(3))

\* C7: evaluating Binding{name, expr} for a non-constant name, where expr
\* evaluates to v, returns Nil and leaves resolve(name) = v, so that
\* evaluating Variable(name) next yields v.
C7_BindingYieldsNil ==
    (last.op = "evaluate" /\ last.expr.k = "Binding") =>
        LET r == evaluate(last.expr.expr, last.pre)
        IN  (r.tag = "Ok" /\ ~IsConstantIn(r.env, last.expr.name))
            => /\ last.tag = "Ok"
               /\ last.result = Nil
               /\ resolve(env, last.expr.name) = r.value
               /\ evaluate(Variable(last.expr.name), env) = Ok(r.value, env)

C7_Witness ==
    /\ last.op = "evaluate"
    /\ last.expr = ExprBinding(NameX, LS)
    /\ last.tag = "Ok"
    /\ last.result = Nil
    /\ resolve(env, NameX) = String(<<"s">>)

\* C8: evaluating Variable(name) for a name that is not bound returns the
\* "not defined" error naming that identifier and leaves the environment
\* unchanged; for a bound name it returns the bound value.
C8_VariableLookup ==
    (last.op = "evaluate" /\ last.expr.k = "Variable") =>
        /\ env = last.pre
        /\ IF last.expr.name \in DOMAIN last.pre
           THEN last.tag = "Ok" /\ last.result = last.pre[last.expr.name].value
           ELSE last.tag = "Err" /\ last.err = Error("NotDefined", last.expr.name)

C8_Witness ==
    /\ last.op = "evaluate"
    /\ last.expr = Vy
    /\ NameY \notin DOMAIN last.pre
    /\ last.tag = "Err"
    /\ last.err.name = NameY

NotANumber(v) == v.t \in {"String", "Nil", "Function"}

AsNumber(v) == IF v.t = "Boolean" THEN (IF v.b THEN Num(1) ELSE Num(0)) ELSE v.n

Applied(kind, l, r) ==
    CASE kind = "Plus" -> FAdd(l, r)
      [] kind = "Minus" -> FAdd(l, FNeg(r))
      [] kind = "Star" -> FMul(l, r)
      [] kind = "Slash" -> FDiv(l, r)

\* C9: a Binary node evaluates its left operand and then, in the environment
\* the left operand left, its right operand; a Boolean operand counts as 1
\* or 0; a String, Nil or Function operand gives the type error; otherwise
\* the result is Number(l op r) for op in + - * /.
C9_BinaryArithmetic ==
    (last.op = "evaluate" /\ last.expr.k = "Binary") =>
        LET lr == evaluate(last.expr.left, last.pre)
            rr == evaluate(last.expr.right, lr.env)
            TypeErr == last.tag = "Err" /\ last.err = TypeError
        IN  lr.tag = "Ok" =>
                IF NotANumber(lr.value) THEN TypeErr /\ env = lr.env
                ELSE rr.tag = "Ok" =>
                        IF NotANumber(rr.value) THEN TypeErr
                        ELSE last.expr.op.kind.k \in ArithKinds =>
                                /\ last.tag = "Ok"
                                /\ last.result =
                                     Number(Applied(last.expr.op.kind.k,
                                                    AsNumber(lr.value),
                                                    AsNumber(rr.value)))

C9_Witness ==
    /\ last.op = "evaluate"
    /\ last.expr = Binary(Variable(NameTrue), Plus, L1)
    /\ last.tag = "Ok"
    /\ last.result = Number(Num(2))

(***************************************************************************)
(* Claims about the scanner, checked under ScanSpec                        *)
(***************************************************************************)
EofCount(toks) == Cardinality({i \in 1..Len(toks) : toks[i].kind.k = "Eof"})

\* C10: when scan returns Ok, the token sequence holds exactly one Eof token
\* and it is the last element; the loop stops right after pushing it, so no
\* token is ever pushed after an Eof.
C10_EofLast ==
    /\ \A i \in 1..Len(tokens) :
          tokens[i].kind.k = "Eof" => (i = Len(tokens) /\ scanPc = "returned")
    /\ (scanPc = "returned" /\ scanOut.tag = "Ok") =>
          /\ scanOut.tokens = tokens
          /\ Len(tokens) >= 1
          /\ tokens[Len(tokens)].kind.k = "Eof"
          /\ EofCount(tokens) = 1

C10_Witness ==
    /\ scanPc = "returned"
    /\ scanOut.tag = "Ok"
    /\ Len(scanOut.tokens) = MaxLen + 1
    /\ scanOut.tokens[MaxLen + 1].kind.k = "Eof"

\* the characters of seq stand in the source at the cursor
Follows(sc, seq) ==
    /\ sc.current + Len(seq) <= Len(sc.source)
    /\ SubSeq(sc.source, sc.current + 1, sc.current + Len(seq)) = seq

\* '@' starts no lexeme; outside a string literal it is an erroneous character
HasErroneousChar(source) ==
    /\ \E i \in 1..Len(source) : source[i] = "@"
    /\ \A i \in 1..Len(source) : source[i] # "\""

\* C11: scan goes on to the end of every source, and then returns Err with
\* every error it met, in order, if there was one, and Ok with the tokens
\* otherwise; a source with an erroneous character never gives Ok, and an
\* Err never holds an empty list.
C11_CollectsAllErrors ==
    /\ scanPc # "panicked"
    /\ scanPc = "returned" =>
          /\ scanner.current = Len(scanner.source)
          /\ scanOut.tag = (IF errors = <<>> THEN "Ok" ELSE "Err")
          /\ scanOut.tag = "Ok" => scanOut.tokens = tokens
          /\ scanOut.tag = "Err" => (scanOut.errors = errors /\ errors # <<>>)
          /\ HasErroneousChar(scanner.source) => scanOut.tag = "Err"

\* the step recorded one error of this kind, moved the cursor by one character
\* and left scan in its loop
RecordsError(kind) ==
    /\ scanPc' = "loop"
    /\ tokens' = tokens
    /\ Len(errors') = Len(errors) + 1
    /\ errors'[Len(errors')].kind = kind
    /\ SubSeq(errors', 1, Len(errors)) = errors
    /\ scanner'.current = scanner.current + 1

\* the step pushed one token of this kind and moved the cursor by n characters
PushesToken(k, n) ==
    /\ scanPc' = "loop"
    /\ errors' = errors
    /\ Len(tokens') = Len(tokens) + 1
    /\ tokens'[Len(tokens')].kind = Kind(k)
    /\ scanner'.current = scanner.current + n

\* C12: wherever a '|' not followed by "->" (a ':' not followed by '=')
\* stands, the scanner records the "Expected a |-> symbol" ("Expected a :=
\* symbol") error, advances by exactly one character and goes on; "|->" and
\* ":=" give one MapsTo / Binding token and advance by 3 / 2.
C12_SymbolErrors ==
    [][scanPc = "loop" =>
        /\ (Follows(scanner, <<"|">>) /\ ~Follows(scanner, <<"|", "-", ">">>))
              => RecordsError("ExpectedMapsTo")
        /\ (Follows(scanner, <<":">>) /\ ~Follows(scanner, <<":", "=">>))
              => RecordsError("ExpectedBinding")
        /\ Follows(scanner, <<"|", "-", ">">>) => PushesToken("MapsTo", 3)
        /\ Follows(scanner, <<":", "=">>) => PushesToken("Binding", 2)]_vars

\* 1 + the number of '\n' among the first start characters
LineOf(source, start) ==
    1 + Cardinality({i \in 1..start : source[i] = "\n"})

\* the 1-based offset, within its line, of the character after the first start
ColumnOf(source, start) ==
    LET newlines == {i \in 1..start : source[i] = "\n"}
        lastNewline == IF newlines = {} THEN 0
                       ELSE CHOOSE i \in newlines : \A j \in newlines : j <= i
    IN  start - lastNewline + 1

\* C13: every token pushed by scan (the end-of-input token aside) carries
\* the line and the column at which its lexeme begins.
C13_TokenPositions ==
    [][(Len(tokens') = Len(tokens) + 1 /\ tokens'[Len(tokens')].kind.k # "Eof") =>
        /\ tokens'[Len(tokens')].line = LineOf(scanner'.source, scanner'.start)
        /\ tokens'[Len(tokens')].column = ColumnOf(scanner'.source, scanner'.start)]_vars

\* the characters scan_token skips, and those with the line break
Blank == {" ", "\r", "\t"}

Whitespace == Blank \cup {"\n"}

OnlyOf(source, chars) == \A i \in 1..Len(source) : source[i] \in chars

NewlineCount(source) == Cardinality({i \in 1..Len(source) : source[i] = "\n"})

EmptyProgram == ParseResult("Ok", Program(<<>>), <<>>)

\* C14 as stated: a source of whitespace only gives exactly one token, Eof,
\* and parse of it gives a Program with no statements.
C14_Original ==
    (scanPc = "returned" /\ OnlyOf(scanner.source, Whitespace)) =>
        /\ scanOut.tag = "Ok"
        /\ Len(scanOut.tokens) = 1
        /\ scanOut.tokens[1].kind.k = "Eof"
        /\ parse(scanOut.tokens) = EmptyProgram

\* C14: a source of spaces, tabs and carriage returns only gives exactly one
\* token, Eof; each '\n' among them adds one EndStmt token before it; parse
\* of the tokens gives a Program with no statements.
C14_BlankSources ==
    (scanPc = "returned" /\ OnlyOf(scanner.source, Whitespace)) =>
        /\ scanOut.tag = "Ok"
        /\ Len(scanOut.tokens) = NewlineCount(scanner.source) + 1
        /\ \A i \in 1..Len(scanOut.tokens) :
              scanOut.tokens[i].kind.k =
                  (IF i = Len(scanOut.tokens) THEN "Eof" ELSE "EndStmt")
        /\ parse(scanOut.tokens) = EmptyProgram

C14_Witness ==
    /\ scanPc = "returned"
    /\ Len(scanner.source) = MaxLen
    /\ OnlyOf(scanner.source, Whitespace)
    /\ \E i \in 1..MaxLen : scanner.source[i] \in Blank
    /\ NewlineCount(scanner.source) = 1
    /\ Len(scanOut.tokens) = 2

(***************************************************************************)
(* Claims about the parser, checked under ParseSpec                        *)
(***************************************************************************)
Additive == {"Plus", "Minus"}

Multiplicative == {"Star", "Slash"}

\* toks[1..n] is primary (operator primary)*, then an optional terminator,
\* then Eof
IsChain(toks, n) ==
    /\ n % 2 = 1
    /\ n + 1 <= Len(toks)
    /\ \A i \in 1..n :
          IF i % 2 = 1 THEN toks[i].kind.k \in {"Number", "Identifier"}
          ELSE toks[i].kind.k \in Additive \cup Multiplicative
    /\ \/ Len(toks) = n + 1
       \/ Len(toks) = n + 2 /\ toks[n + 1].kind.k = "EndStmt"
    /\ toks[Len(toks)].kind.k = "Eof"

ChainLength(toks) ==
    IF \E n \in 1..Len(toks) : IsChain(toks, n)
    THEN CHOOSE n \in 1..Len(toks) : IsChain(toks, n)
    ELSE 0

RefPrimary(tok) ==
    IF tok.kind.k = "Number" THEN Literal(Number(tok.kind.n))
    ELSE Variable(tok.kind.name)

\* the tree of the grammar for toks[lo..hi] when it holds no '+' or '-':
\* the last '*' or '/' is the root, what is left of it the left operand
RECURSIVE RefTerm(_, _, _)
RefTerm(toks, lo, hi) ==
    IF lo = hi THEN RefPrimary(toks[lo])
    ELSE Binary(RefTerm(toks, lo, hi - 2), toks[hi - 1], RefPrimary(toks[hi]))

\* the tree of the grammar for toks[lo..hi]: the last '+' or '-' is the
\* root, what is left of it the left operand, what is right of it a term
RECURSIVE RefSum(_, _, _)
RefSum(toks, lo, hi) ==
    LET sums == {j \in lo..hi : toks[j].kind.k \in Additive}
        j == CHOOSE i \in sums : \A m \in sums : m <= i
    IN  IF sums = {} THEN RefTerm(toks, lo, hi)
        ELSE Binary(RefSum(toks, lo, j - 1), toks[j], RefTerm(toks, j + 1, hi))

\* C15: for a chain of primaries separated by + - * / and ended by a
\* terminator or Eof, parse returns the one tree of the reference grammar:
\* '*' and '/' bind tighter than '+' and '-', equal levels group to the
\* left, and each Binary carries the operator token it consumed.
C15_Precedence ==
    (parsePc = "returned" /\ ChainLength(parser.tokens) > 0) =>
        parseOut = ParseResult("Ok",
            Program(<<RefSum(parser.tokens, 1, ChainLength(parser.tokens))>>), <<>>)

C15_Witness ==
    /\ parsePc = "returned"
    /\ ChainLength(parser.tokens) = 7
    /\ parser.tokens[2].kind.k = "Minus"
    /\ parser.tokens[4].kind.k = "Plus"
    /\ parser.tokens[6].kind.k = "Star"
    /\ parseOut.tag = "Ok"

\* the number of terminators before toks[i]: the statement toks[i] is in
SegmentOf(toks, i) ==
    Cardinality({j \in 1..(i - 1) : toks[j].kind.k = "EndStmt"})

\* toks[lo..hi] is all that stands between two terminators (or the start,
\* or Eof) and is primary (operator primary)*
IsChainSegment(toks, lo, hi) ==
    /\ lo <= hi /\ hi < Len(toks)
    /\ lo = 1 \/ toks[lo - 1].kind.k = "EndStmt"
    /\ toks[hi + 1].kind.k \in {"EndStmt", "Eof"}
    /\ (hi - lo) % 2 = 0
    /\ \A i \in lo..hi :
          IF (i - lo) % 2 = 0 THEN toks[i].kind.k \in {"Number", "Identifier"}
          ELSE toks[i].kind.k \in Additive \cup Multiplicative

\* C16: when parse returns, no two of its errors are in the same
\* terminator-delimited statement, every well-formed statement between two
\* terminators has been parsed into its tree whatever came before it, and
\* the errors returned are all the errors recorded.
C16_Recovery ==
    parsePc = "returned" =>
        /\ \A i, j \in 1..Len(parseErrors) :
              (SegmentOf(parser.tokens, parseErrors[i].column)
                 = SegmentOf(parser.tokens, parseErrors[j].column)) => i = j
        /\ \A lo, hi \in 1..Len(parser.tokens) :
              IsChainSegment(parser.tokens, lo, hi) =>
                  \E n \in 1..Len(parseStmts) :
                      parseStmts[n] = RefSum(parser.tokens, lo, hi)
        /\ parseErrors # <<>> =>
              (parseOut.tag = "Err" /\ parseOut.errors = parseErrors)

\* C17: on every token sequence that ends with its only Eof, parse returns:
\* it never reaches an unreachable!() arm, and what it returns is Ok with a
\* Program or Err with at least one error.
C17_ParseTotal ==
    /\ parsePc # "panicked"
    /\ parsePc = "returned" =>
          \/ parseOut.tag = "Ok" /\ parseOut.expr.k = "Program"
          \/ parseOut.tag = "Err" /\ parseOut.errors # <<>>

\* expr holds, at any depth, only what evaluate handles: no Empty, Unary,
\* FunctionDef, FunctionCall or If, no Boolean or Nil literal, and only
\* + - * / in a Binary
RECURSIVE Evaluable(_)
Evaluable(expr) ==
    CASE expr.k = "Program" ->
            \A i \in 1..Len(expr.statements) : Evaluable(expr.statements[i])
      [] expr.k = "Literal" -> expr.literal.t \in {"Number", "String"}
      [] expr.k = "Variable" -> TRUE
      [] expr.k = "Grouping" -> Evaluable(expr.expr)
      [] expr.k = "Binding" -> Evaluable(expr.expr)
      [] expr.k = "Binary" ->
            /\ expr.op.kind.k \in Additive \cup Multiplicative
            /\ Evaluable(expr.left)
            /\ Evaluable(expr.right)
      [] OTHER -> FALSE

\* C18: a Program that parse returns as Ok holds nothing evaluate cannot
\* handle, and evaluating it in a new Environment does not panic.
C18_ParsedEvaluates ==
    (parsePc = "returned" /\ parseOut.tag = "Ok") =>
        /\ Evaluable(parseOut.expr)
        /\ evaluate(parseOut.expr, new).tag # "Panic"

\* C19: the cursor never passes Eof and never moves backward; every
\* iteration of the loop of program() that came back moved it forward by at
\* least one token, so there are at most as many iterations as tokens
\* before Eof; and program() returns with the cursor on Eof.
C19_Progress ==
    /\ parsePc # "new" => parser.current < Len(parser.tokens)
    /\ parser.current >= parsePrev
    /\ (parseIters > 0 /\ parsePc \in {"loop", "returned"}) =>
          parser.current > parsePrev
    /\ parsePc \in {"loop", "returned"} => parseIters <= parser.current
    /\ parsePc = "returned" => current_kind(parser).k = "Eof"

C19_Witness ==
    /\ parsePc = "returned"
    /\ parser.tokens[1].kind.k = "RightParen"
    /\ parseIters = 3
    /\ Len(parseErrors) = 1
    /\ Len(parseStmts) = 1

(***************************************************************************)
(* Claims about the REPL, checked under ReplSpec                           *)
(***************************************************************************)
\* C4: one Environment is shared by all input lines: after every line read,
\* whatever error it produced, the REPL is back reading the next line, and
\* every name bound before the line is still resolvable after it; the loop
\* returns only at end-of-input.
C4_ReplContinues ==
    /\ replLast.kind = "line" =>
          /\ replPc = "loop"
          /\ \A n \in DOMAIN replLast.pre : resolve(env, n) # None
    /\ replPc = "returned_ok" => replLast.kind = "eof"

====
